---- MODULE Spec2Model ----
(***************************************************************************)
(* Outage tracker: the notification daemon (monitor_outages_daemon.py),    *)
(* the tool handlers of server.py and the configuration store config.py,   *)
(* as one state machine.  Two processes share two files: the server (tool  *)
(* front end) and the daemon each hold an in-memory copy of the            *)
(* configuration record and rewrite the whole record when they save.       *)
(*                                                                         *)
(* Time is the wall clock in whole minutes since 00:00 of day 0; the       *)
(* clock is sampled at the instants of Instants.  An optional value is a   *)
(* sequence of length 0 (None) or 1.                                       *)
(***************************************************************************)
EXTENDS Integers, Sequences, FiniteSets, TLC

\* ---- bounds of the model ----
MaxDay == 1
MaxHour == 2
MaxSlots == 2
\* at most so many notifications fail to be delivered
MaxFailures == 1

\* ---- program constants ----
MinutesPerHour == 60
HoursPerDay == 24
FreshSeconds == 3600
RestoreWindow == 10
DefaultInterval == 60
DefaultNotifyBefore == 60
StartupBacklog == 120
DisabledReminder == 60

\* sampled minutes of an hour, and the settings a configure call may carry
SampleMinutes == {0, 50}
NotifyChoices == {45, DefaultNotifyBefore}
IntervalChoices == {DefaultInterval}

Instants ==
  { (d * HoursPerDay + h) * MinutesPerHour + m :
      d \in 0..MaxDay, h \in 0..MaxHour, m \in SampleMinutes }

VARIABLES
  now,        \* Clock: minutes since day 0, 00:00
  fileCfg,    \* config.json: address, monitoring settings, tracked outage
  srvCfg,     \* the server process's in-memory Config
  cache,      \* schedule_cache.json: None or a ScheduleCache
  running,    \* daemon: the process is inside its while loop
  notified,   \* daemon: notified_outages
  lastKnown,  \* daemon: last_known_config
  lastCheck,  \* daemon: last_check_time
  cycle,      \* daemon: what the last step was: "checked", "idle" or "none"
  events,     \* notifications sent by the last loop iteration, in order
  resp,       \* the answer of the last tool call
  warnCount,  \* history: start-warnings per outage id since notified was last emptied
  driftCount, \* history: drift events per kind since the tracked outage was created
  pc,         \* daemon: where the process stands in its while loop
  daemonCfg,  \* daemon: the in-memory Config of the daemon process
  undelivered \* history: the notifications whose print to the terminal raised

\* what only the step-by-step view of the loop looks at
loopVars == <<pc, daemonCfg, undelivered>>

vars == <<now, fileCfg, srvCfg, cache, running, notified, lastKnown, lastCheck,
          cycle, events, resp, warnCount, driftCount, pc, daemonCfg, undelivered>>

None == <<>>
Some(x) == <<x>>

Max(a, b) == IF a >= b THEN a ELSE b
Min(a, b) == IF a <= b THEN a ELSE b

\* ---- the clock: datetime.now().hour / .minute / .strftime("%d.%m.%y") ----
Hour(t) == (t \div MinutesPerHour) % HoursPerDay
Minute(t) == t % MinutesPerHour
Today(t) == t \div (MinutesPerHour * HoursPerDay)

\* ---- text: a str is a sequence of characters ----
Space == " "

RECURSIVE lstrip(_)
lstrip(s) == IF s # <<>> /\ Head(s) = Space THEN lstrip(Tail(s)) ELSE s

RECURSIVE rstrip(_)
rstrip(s) ==
  IF s # <<>> /\ s[Len(s)] = Space THEN rstrip(SubSeq(s, 1, Len(s) - 1)) ELSE s

\* variant: the text is taken as typed
Unstripped(s) == s

\* str.strip()
strip(s) == rstrip(lstrip(s))

\* ---- config.py ----
Address(city, street, house_number) ==
  [city |-> city, street |-> street, house_number |-> house_number]

\* the address stored by earlier use of set_address
KnownAddress == Address(<<"a">>, <<"a">>, <<"a">>)

OutageSchedule(d, s, e) ==
  [schedule_type |-> "actual", date |-> d, start_hour |-> s, end_hour |-> e]

TrackedOutage(d, s, e, nas, nac) ==
  [date |-> d, start_hour |-> s, end_hour |-> e,
   notified_about_start |-> nas, notified_about_change |-> nac]

\* Config._load_config when config.json does not exist
DefaultConfig ==
  [address |-> None, enabled |-> FALSE,
   notification_before_minutes |-> DefaultNotifyBefore,
   check_interval_minutes |-> DefaultInterval,
   tracked_outage |-> None]

ConfigTriple(cfg) ==
  [enabled |-> cfg.enabled,
   notification_before_minutes |-> cfg.notification_before_minutes,
   check_interval_minutes |-> cfg.check_interval_minutes]

\* ---- the inputs: slots, snapshots, outage identifiers ----
SlotUniverse ==
  { OutageSchedule(d, s, e) : d \in 0..MaxDay, s \in 1..MaxHour, e \in 2..(MaxHour + 1) }

WellFormedSlot(s) == s.start_hour < s.end_hour

\* (date, start_hour) order of the schedule table: at most one slot per key
Before(a, b) ==
  \/ a.date < b.date
  \/ a.date = b.date /\ a.start_hour < b.start_hour

SlotLists ==
  UNION { { q \in [1..n -> { s \in SlotUniverse : WellFormedSlot(s) }] :
              \A i \in 1..(n - 1) : Before(q[i], q[i + 1]) } : n \in 0..MaxSlots }

\* what one fetch returns: the table of one date, in column order
SnapshotLists ==
  { q \in SlotLists : \A i, j \in 1..Len(q) : q[i].date = q[j].date }

OutageIds == (0..MaxDay) \X (1..MaxHour)

\* f"{date}_{start_hour:02d}": one identifier per (date, start hour)
OutageId(s) == <<s.date, s.start_hour>>

DriftKinds == {"cancelled", "extended", "shortened"}

Notification(kind, d, s, e, ne, m) ==
  [kind |-> kind, date |-> d, start_hour |-> s, end_hour |-> e,
   new_end_hour |-> ne, minutes |-> m]

\* ---- monitor_outages_daemon.py: check_upcoming_outages ----
ActualOnly(schedules) ==
  SelectSeq(schedules, LAMBDA s : s.schedule_type = "actual")

NoScheduleData(cached) ==
  \/ cached = None
  \/ cached[1].actual_schedules = <<>>

TimeUntilOutage(s, t) ==
  (s.start_hour - Hour(t)) * MinutesPerHour - Minute(t)

InNotificationWindow(s, cfg, t) ==
  /\ s.date = Today(t)
  /\ 0 <= TimeUntilOutage(s, t)
  /\ TimeUntilOutage(s, t) <= cfg.notification_before_minutes

UpcomingOutages(actual, cfg, t) ==
  SelectSeq(actual, LAMBDA s : InNotificationWindow(s, cfg, t))

\* variant: the last entry of the window instead of the closest
LastUpcoming(upcoming, t) == upcoming[Len(upcoming)]

\* min(upcoming_outages, key=lambda x: x[1]): the first entry with the least key
ClosestOutage(upcoming, t) ==
  LET i == CHOOSE i \in 1..Len(upcoming) :
             /\ \A j \in 1..Len(upcoming) :
                  TimeUntilOutage(upcoming[i], t) <= TimeUntilOutage(upcoming[j], t)
             /\ \A j \in 1..(i - 1) :
                  TimeUntilOutage(upcoming[j], t) > TimeUntilOutage(upcoming[i], t)
  IN upcoming[i]

\* variant: the identifier set is never consulted
NeverNotified(id, notified_outages) == FALSE

AlreadyNotified(id, notified_outages) == id \in notified_outages

NewTrackedOutage(closest) ==
  TrackedOutage(closest.date, closest.start_hour, closest.end_hour, TRUE, FALSE)

NothingSent(cfg, notified_outages) ==
  [sent |-> FALSE, notified |-> notified_outages,
   tracked_outage |-> cfg.tracked_outage, events |-> <<>>]

CheckUpcomingOutages(cfg, cached, notified_outages, t) ==
  IF ~cfg.enabled THEN NothingSent(cfg, notified_outages)
  ELSE IF cfg.address = None THEN NothingSent(cfg, notified_outages)
  ELSE IF NoScheduleData(cached) THEN NothingSent(cfg, notified_outages)
  ELSE
    LET upcoming == UpcomingOutages(ActualOnly(cached[1].actual_schedules), cfg, t)
    IN IF upcoming = <<>> THEN NothingSent(cfg, notified_outages)
       ELSE
         LET closest == ClosestOutage(upcoming, t)
         IN IF AlreadyNotified(OutageId(closest), notified_outages)
            THEN NothingSent(cfg, notified_outages)
            ELSE [sent |-> TRUE,
                  notified |-> notified_outages \cup {OutageId(closest)},
                  tracked_outage |-> Some(NewTrackedOutage(closest)),
                  events |-> << Notification("start_warning", closest.date,
                                    closest.start_hour, closest.end_hour,
                                    closest.end_hour, TimeUntilOutage(closest, t)) >>]

\* ---- monitor_outages_daemon.py: check_schedule_changes ----
MinutesUntilRestoration(tracked, t) ==
  (tracked.end_hour - Hour(t)) * MinutesPerHour - Minute(t)

\* variant: no upper end of the restoration window
AnyTimeBeforeRestoration(minutes) == 0 <= minutes

WithinRestoreWindow(minutes) == 0 <= minutes /\ minutes <= RestoreWindow

\* the first slot of today with the tracked start hour, as an optional index
FindCurrentOutage(actual, tracked, t) ==
  LET hits == { i \in 1..Len(actual) :
                  /\ actual[i].date = Today(t)
                  /\ actual[i].start_hour = tracked.start_hour }
  IN IF hits = {} THEN None
     ELSE Some(actual[CHOOSE i \in hits : \A j \in hits : i <= j])

NoChangeSent(cfg) ==
  [sent |-> FALSE, tracked_outage |-> cfg.tracked_outage, events |-> <<>>]

CheckScheduleChanges(cfg, cached, t) ==
  IF ~cfg.enabled \/ cfg.tracked_outage = None THEN NoChangeSent(cfg)
  ELSE
    LET tracked == cfg.tracked_outage[1]
    IN IF tracked.date # Today(t) THEN NoChangeSent(cfg)
       ELSE IF ~WithinRestoreWindow(MinutesUntilRestoration(tracked, t))
         THEN NoChangeSent(cfg)
       ELSE IF tracked.notified_about_change THEN NoChangeSent(cfg)
       ELSE IF NoScheduleData(cached) THEN NoChangeSent(cfg)
       ELSE
         LET current_outage ==
               FindCurrentOutage(ActualOnly(cached[1].actual_schedules), tracked, t)
         IN IF current_outage = None
            THEN [sent |-> TRUE,
                  tracked_outage |->
                    Some([tracked EXCEPT !.notified_about_change = TRUE]),
                  events |-> << Notification("cancelled", tracked.date,
                                   tracked.start_hour, tracked.end_hour,
                                   tracked.end_hour, 0) >>]
            ELSE IF current_outage[1].end_hour # tracked.end_hour
            THEN [sent |-> TRUE,
                  tracked_outage |->
                    Some([tracked EXCEPT !.end_hour = current_outage[1].end_hour,
                                         !.notified_about_change = TRUE]),
                  events |-> << Notification(
                                   IF current_outage[1].end_hour > tracked.end_hour
                                     THEN "extended" ELSE "shortened",
                                   tracked.date, tracked.start_hour, tracked.end_hour,
                                   current_outage[1].end_hour, 0) >>]
            ELSE NoChangeSent(cfg)

\* ---- monitor_outages_daemon.py: main ----
\* variant: the interval is check_interval_minutes whatever the lead time
IntervalAsConfigured(cfg) == cfg.check_interval_minutes

EffectiveCheckInterval(cfg) ==
  IF cfg.notification_before_minutes < 60
    THEN Max(1, cfg.notification_before_minutes \div 15)
    ELSE Min(cfg.check_interval_minutes,
             Max(5, cfg.notification_before_minutes \div 10))

\* history bookkeeping, not program state
CountUp(n) == IF n >= 2 THEN 2 ELSE n + 1

WarnCounted(counts, evs) ==
  [id \in OutageIds |->
     IF \E i \in 1..Len(evs) :
          evs[i].kind = "start_warning" /\ <<evs[i].date, evs[i].start_hour>> = id
       THEN CountUp(counts[id]) ELSE counts[id]]

\* drift events per kind for the outage now tracked; a new tracked identity starts afresh
TrackedId(cfg) ==
  IF cfg.tracked_outage = None THEN None
  ELSE Some(<<cfg.tracked_outage[1].date, cfg.tracked_outage[1].start_hour>>)

DriftCounted(counts, evs) ==
  [k \in DriftKinds |->
     IF \E i \in 1..Len(evs) : evs[i].kind = k
       THEN CountUp(counts[k]) ELSE counts[k]]

NoDriftCounts == [k \in DriftKinds |-> 0]

\* a write that changes which outage is tracked starts the drift history afresh
DriftKept(counts, old_cfg, new_cfg) ==
  IF TrackedId(new_cfg) = TrackedId(old_cfg) THEN counts ELSE NoDriftCounts

NoCounts == [id \in OutageIds |-> 0]

\* fetched: the number of calls of the Fetcher made for the answer
Response(kind, from_cache, fetched, snapshot, outage) ==
  [kind |-> kind, from_cache |-> from_cache, fetched |-> fetched,
   snapshot |-> snapshot, outage |-> outage]

NoResponse == Response("none", FALSE, 0, None, None)

\* the sampled instant after t, or t itself at the end of the sampled period
NextInstant(t) ==
  IF \E u \in Instants : u > t
    THEN CHOOSE u \in Instants : u > t /\ \A w \in Instants : w > t => u <= w
    ELSE t

\* variant: a change of the settings goes unnoticed
ChangeUndetected(monitoring, last_known_config) == FALSE

ConfigChanged(monitoring, last_known_config) ==
  ConfigTriple(monitoring) # last_known_config

\* last_check_time after the change detection
LastCheckAfterReload(monitoring, last_known_config, last_check_time, t) ==
  IF ConfigChanged(monitoring, last_known_config) /\ monitoring.enabled
    THEN t - StartupBacklog ELSE last_check_time

CheckIsDue(monitoring, last_check_time, t) ==
  t - last_check_time >= EffectiveCheckInterval(monitoring)

\* variant: check_schedule_changes works on the record loaded before the warning
MonitoringBeforeWarning(monitoring, a) == monitoring

\* the record check_schedule_changes reads after check_upcoming_outages has saved
MonitoringAfterWarning(monitoring, a) ==
  [monitoring EXCEPT !.tracked_outage = a.tracked_outage]

\* one pass of the while loop: reload, change detection, the two checks, and
\* the sleep, after which the sampled clock reads the same or the next instant
LoopIteration ==
  LET monitoring == fileCfg
      changed == ConfigChanged(monitoring, lastKnown)
      notified0 == IF changed THEN {} ELSE notified
      counts0 == IF changed THEN NoCounts ELSE warnCount
      last0 == LastCheckAfterReload(monitoring, lastKnown, lastCheck, now)
      since == now - last0
      due == CheckIsDue(monitoring, last0, now)
  IN /\ running
     /\ lastKnown' = ConfigTriple(monitoring)
     /\ cycle' = IF monitoring.enabled /\ due THEN "checked" ELSE "idle"
     /\ IF monitoring.enabled /\ due
          THEN LET a == CheckUpcomingOutages(monitoring, cache, notified0, now)
                   b == CheckScheduleChanges(MonitoringAfterWarning(monitoring, a),
                                             cache, now)
               IN /\ notified' = a.notified
                  /\ fileCfg' = [monitoring EXCEPT !.tracked_outage = b.tracked_outage]
                  /\ events' = a.events \o b.events
                  /\ warnCount' = WarnCounted(counts0, a.events)
                  /\ driftCount' = DriftCounted(
                                      IF a.sent THEN NoDriftCounts ELSE driftCount,
                                      b.events)
                  /\ lastCheck' = now
          ELSE /\ notified' = notified0
               /\ warnCount' = counts0
               /\ events' = <<>>
               /\ lastCheck' = IF ~monitoring.enabled /\ since >= DisabledReminder
                                 THEN now ELSE last0
               /\ UNCHANGED <<fileCfg, driftCount>>
     /\ now' \in {now, NextInstant(now)}
     /\ resp' = NoResponse
     /\ UNCHANGED <<srvCfg, cache, running>>

\* process start of the daemon: main() up to the loop
DaemonStart ==
  /\ ~running
  /\ running' = TRUE
  /\ notified' = {}
  /\ warnCount' = NoCounts
  /\ lastKnown' = ConfigTriple(fileCfg)
  /\ lastCheck' = now - StartupBacklog
  /\ cycle' = "none"
  /\ events' = <<>>
  /\ resp' = NoResponse
  /\ UNCHANGED <<now, fileCfg, srvCfg, cache, driftCount>>

\* signal_handler, seen at the top of the loop: the process ends and its memory is gone
DaemonStop ==
  /\ running
  /\ running' = FALSE
  /\ notified' = {}
  /\ warnCount' = NoCounts
  /\ lastKnown' = ConfigTriple(DefaultConfig)
  /\ lastCheck' = 0
  /\ cycle' = "none"
  /\ events' = <<>>
  /\ resp' = NoResponse
  /\ UNCHANGED <<now, fileCfg, srvCfg, cache, driftCount>>

\* the wall clock moves on while no daemon process runs
ClockAdvance ==
  /\ ~running
  /\ now' = NextInstant(now)
  /\ now' # now
  /\ cycle' = "none"
  /\ events' = <<>>
  /\ resp' = NoResponse
  /\ UNCHANGED <<fileCfg, srvCfg, cache, running, notified, lastKnown, lastCheck,
                 warnCount, driftCount>>

\* ---- server.py: the tool handlers, run by the server process ----
ScheduleCache(actual, t) == [actual_schedules |-> actual, last_updated |-> t]

\* module import of config.py in the server process: config = Config()
ServerStart ==
  /\ srvCfg' = fileCfg
  /\ cycle' = "none"
  /\ events' = <<>>
  /\ resp' = NoResponse
  /\ UNCHANGED <<now, fileCfg, cache, running, notified, lastKnown, lastCheck,
                 warnCount, driftCount>>

\* arguments.get(key, default): an absent argument reads as the default
ArgumentOr(arg, default) == IF arg = None THEN default ELSE arg[1]

\* handle_set_address, with Config.set_address
handle_set_address(arg_city, arg_street, arg_house_number) ==
  /\ LET city == strip(ArgumentOr(arg_city, <<>>))
         street == strip(ArgumentOr(arg_street, <<>>))
         house_number == strip(ArgumentOr(arg_house_number, <<>>))
     IN IF city = <<>> \/ street = <<>> \/ house_number = <<>>
          THEN /\ resp' = Response("address_missing", FALSE, 0, None, None)
               /\ UNCHANGED <<srvCfg, fileCfg>>
          ELSE /\ srvCfg' = [srvCfg EXCEPT
                               !.address =
                                 Some(Address(city, street, house_number))]
               /\ fileCfg' = srvCfg'
               /\ resp' = Response("address_saved", FALSE, 0, None, None)
  /\ driftCount' = DriftKept(driftCount, fileCfg, fileCfg')
  /\ cycle' = "none"
  /\ events' = <<>>
  /\ UNCHANGED <<now, cache, running, notified, lastKnown, lastCheck, warnCount>>

\* variant: an argument is never taken over
ArgumentIgnored(arg, old) == old

\* an argument that may be absent from the arguments dict
Given(arg, old) == IF arg = None THEN old ELSE arg[1]

handle_configure_monitoring(arg_enabled, arg_before, arg_interval) ==
  /\ srvCfg' = [srvCfg EXCEPT
       !.notification_before_minutes = Given(arg_before, @),
       !.enabled = Given(arg_enabled, @),
       !.check_interval_minutes = Given(arg_interval, @)]
  /\ fileCfg' = srvCfg'
  /\ resp' = Response("monitoring_configured", FALSE, 0, None, None)
  /\ driftCount' = DriftKept(driftCount, fileCfg, fileCfg')
  /\ cycle' = "none"
  /\ events' = <<>>
  /\ UNCHANGED <<now, cache, running, notified, lastKnown, lastCheck, warnCount>>

\* cache_age.total_seconds()
CacheAgeSeconds(cached, t) == (t - cached.last_updated) * 60

CacheIsFresh(cached, t) == CacheAgeSeconds(cached, t) < FreshSeconds

\* variant: the age of the stored snapshot is not looked at
ServeWhenCached(force_refresh, cached, t) ==
  /\ ~force_refresh
  /\ cached # None
  /\ cached[1].actual_schedules # <<>>

ServeFromCache(force_refresh, cached, t) ==
  /\ ~force_refresh
  /\ cached # None
  /\ cached[1].actual_schedules # <<>>
  /\ CacheIsFresh(cached[1], t)

\* variant: the except branch answers with the stored snapshot
StaleOnError(cached) == Response("schedule", TRUE, 1, cached, None)

\* the except branch of handle_check_schedule
FetchErrorResponse(cached) == Response("error_fetching", FALSE, 1, None, None)

\* handle_check_schedule; fetched is the Fetcher's outcome: None when it raises,
\* else the list of parsed slots
handle_check_schedule(force_refresh, fetched) ==
  /\ IF srvCfg.address = None
       THEN /\ resp' = Response("address_not_configured", FALSE, 0, None, None)
            /\ UNCHANGED cache
     ELSE IF ServeFromCache(force_refresh, cache, now)
       THEN /\ resp' = Response("schedule", TRUE, 0, cache, None)
            /\ UNCHANGED cache
     ELSE IF fetched # None
       THEN /\ cache' = Some(ScheduleCache(fetched[1], now))
            /\ resp' = Response("schedule", FALSE, 1, cache', None)
     ELSE /\ resp' = FetchErrorResponse(cache)
          /\ UNCHANGED cache
  /\ cycle' = "none"
  /\ events' = <<>>
  /\ UNCHANGED <<now, fileCfg, srvCfg, running, notified, lastKnown, lastCheck,
                 warnCount, driftCount>>

\* the selection loop of handle_get_next_outage, with its fallback
NextOutage(actual, t) ==
  LET hits == { i \in 1..Len(actual) :
                  \/ actual[i].date # Today(t)
                  \/ actual[i].start_hour > Hour(t) }
  IN IF hits # {} THEN Some(actual[CHOOSE i \in hits : \A j \in hits : i <= j])
     ELSE IF actual # <<>> THEN Some(actual[1])
     ELSE None

handle_get_next_outage ==
  /\ resp' =
       IF srvCfg.address = None
         THEN Response("address_not_configured", FALSE, 0, None, None)
       ELSE IF NoScheduleData(cache)
         THEN Response("no_schedule_data", FALSE, 0, None, None)
       ELSE
         LET next_outage == NextOutage(ActualOnly(cache[1].actual_schedules), now)
         IN IF next_outage = None
              THEN Response("no_next_outage", FALSE, 0, None, None)
              ELSE Response("next_outage", FALSE, 0, None, next_outage)
  /\ cycle' = "none"
  /\ events' = <<>>
  /\ UNCHANGED <<now, fileCfg, srvCfg, cache, running, notified, lastKnown, lastCheck,
                 warnCount, driftCount>>

\* the window test of handle_check_upcoming_outages: no test on the date
InToolWindow(s, cfg, t) ==
  /\ 0 <= TimeUntilOutage(s, t)
  /\ TimeUntilOutage(s, t) <= cfg.notification_before_minutes

handle_check_upcoming_outages ==
  /\ resp' =
       IF ~srvCfg.enabled
         THEN Response("monitoring_disabled", FALSE, 0, None, None)
       ELSE IF srvCfg.address = None
         THEN Response("address_not_configured", FALSE, 0, None, None)
       ELSE IF NoScheduleData(cache)
         THEN Response("no_schedule_data", FALSE, 0, None, None)
       ELSE
         LET actual == ActualOnly(cache[1].actual_schedules)
             upcoming == SelectSeq(actual, LAMBDA s : InToolWindow(s, srvCfg, now))
         IN IF upcoming # <<>>
              THEN Response("upcoming_outage_alert", FALSE, 0, None,
                            Some(ClosestOutage(upcoming, now)))
              ELSE Response("no_upcoming_outages", FALSE, 0, None,
                            NextOutage(actual, now))
  /\ cycle' = "none"
  /\ events' = <<>>
  /\ UNCHANGED <<now, fileCfg, srvCfg, cache, running, notified, lastKnown, lastCheck,
                 warnCount, driftCount>>

\* ---- the state machines ----
OptionalOf(S) == {None} \cup { Some(x) : x \in S }

\* what a caller types into one field of set_address: blanks, a word, a
\* word with blanks around it, two words
AddressTexts ==
  { <<Space>>, <<"a">>, <<Space, "a", Space>>, <<"a", Space, "a">> }

\* an empty field or the field of KnownAddress
PlainTexts == { <<>>, <<"a">> }

\* a tracked outage of day 0 left by an earlier start warning
TrackedChoices ==
  OptionalOf({ TrackedOutage(s.date, s.start_hour, s.end_hour, TRUE, FALSE) :
                 s \in { x \in SlotUniverse : WellFormedSlot(x) /\ x.date = 0 } })

\* The daemon has just entered its loop and the server has just been started,
\* on files left by earlier use: a snapshot exists only if an address was set,
\* a tracked outage only if a snapshot exists.
Init ==
  /\ now = 0
  /\ \E a \in OptionalOf({KnownAddress}), e \in BOOLEAN, b \in NotifyChoices, tr \in TrackedChoices :
       fileCfg = [address |-> a, enabled |-> e,
                  notification_before_minutes |-> b,
                  check_interval_minutes |-> DefaultInterval,
                  tracked_outage |-> tr]
  /\ srvCfg = fileCfg
  /\ cache \in OptionalOf({ ScheduleCache(q, 0) : q \in SnapshotLists })
  /\ fileCfg.address = None => cache = None
  /\ cache = None => fileCfg.tracked_outage = None
  /\ running = TRUE
  /\ notified = {}
  /\ lastKnown = ConfigTriple(fileCfg)
  /\ lastCheck = now - StartupBacklog
  /\ cycle = "none"
  /\ events = <<>>
  /\ resp = NoResponse
  /\ warnCount = NoCounts
  /\ driftCount = NoDriftCounts
  /\ pc = "top"
  /\ daemonCfg = DefaultConfig
  /\ undelivered = {}

Next ==
  \/ LoopIteration /\ UNCHANGED loopVars
  \/ DaemonStop /\ UNCHANGED loopVars
  \/ DaemonStart /\ UNCHANGED loopVars
  \/ ClockAdvance /\ UNCHANGED loopVars
  \/ ServerStart /\ UNCHANGED loopVars
  \/ \E e \in OptionalOf(BOOLEAN), b \in OptionalOf(NotifyChoices),
        i \in OptionalOf(IntervalChoices) :
          handle_configure_monitoring(e, b, i) /\ UNCHANGED loopVars

Spec == Init /\ [][Next]_vars

\* A fresh installation: no config.json, no schedule_cache.json, no daemon.
InitCache ==
  /\ now = 0
  /\ fileCfg = DefaultConfig
  /\ srvCfg = DefaultConfig
  /\ cache = None
  /\ running = FALSE
  /\ notified = {}
  /\ lastKnown = ConfigTriple(DefaultConfig)
  /\ lastCheck = 0
  /\ cycle = "none"
  /\ events = <<>>
  /\ resp = NoResponse
  /\ warnCount = NoCounts
  /\ driftCount = NoDriftCounts
  /\ pc = "top"
  /\ daemonCfg = DefaultConfig
  /\ undelivered = {}

NextCache ==
  \/ ClockAdvance /\ UNCHANGED loopVars
  \/ \E text \in PlainTexts :
       handle_set_address(Some(text), Some(text), Some(text))
       /\ UNCHANGED loopVars
  \/ \E force \in BOOLEAN, fetched \in OptionalOf(SnapshotLists) :
        handle_check_schedule(force, fetched) /\ UNCHANGED loopVars

SpecCache == InitCache /\ [][NextCache]_vars

\* The server answering its read-only tools at any sampled instant, on any
\* stored snapshot and any monitoring settings.
InitTools ==
  /\ now \in Instants
  /\ \E a \in OptionalOf({KnownAddress}), e \in BOOLEAN, b \in NotifyChoices :
       fileCfg = [address |-> a, enabled |-> e,
                  notification_before_minutes |-> b,
                  check_interval_minutes |-> DefaultInterval,
                  tracked_outage |-> None]
  /\ srvCfg = fileCfg
  /\ cache \in OptionalOf({ ScheduleCache(q, 0) : q \in SnapshotLists })
  /\ fileCfg.address = None => cache = None
  /\ running = FALSE
  /\ notified = {}
  /\ lastKnown = ConfigTriple(DefaultConfig)
  /\ lastCheck = 0
  /\ cycle = "none"
  /\ events = <<>>
  /\ resp = NoResponse
  /\ warnCount = NoCounts
  /\ driftCount = NoDriftCounts
  /\ pc = "top"
  /\ daemonCfg = DefaultConfig
  /\ undelivered = {}

NextTools ==
  \/ handle_get_next_outage /\ UNCHANGED loopVars
  \/ handle_check_upcoming_outages /\ UNCHANGED loopVars

SpecTools == InitTools /\ [][NextTools]_vars

\* The cadence of the loop under settings with a long notification lead time:
\* the daemon is in its loop, an address is set and a one-slot snapshot of
\* day 0 is stored; configure_monitoring takes any integers.
CadenceNotifyChoices == NotifyChoices \cup {1300}

CadenceIntervalChoices == IntervalChoices \cup {180}

InitCadence ==
  /\ now = 0
  /\ \E e \in BOOLEAN, b \in CadenceNotifyChoices, i \in CadenceIntervalChoices :
       fileCfg = [address |-> Some(KnownAddress), enabled |-> e,
                  notification_before_minutes |-> b,
                  check_interval_minutes |-> i,
                  tracked_outage |-> None]
  /\ srvCfg = fileCfg
  /\ cache \in { Some(ScheduleCache(q, 0)) :
                   q \in { x \in SnapshotLists : Len(x) = 1 /\ x[1].date = 0 } }
  /\ running = TRUE
  /\ notified = {}
  /\ lastKnown = ConfigTriple(fileCfg)
  /\ lastCheck = now - StartupBacklog
  /\ cycle = "none"
  /\ events = <<>>
  /\ resp = NoResponse
  /\ warnCount = NoCounts
  /\ driftCount = NoDriftCounts
  /\ pc = "top"
  /\ daemonCfg = DefaultConfig
  /\ undelivered = {}

NextCadence ==
  \/ LoopIteration /\ UNCHANGED loopVars
  \/ \E e \in OptionalOf(BOOLEAN), b \in OptionalOf(CadenceNotifyChoices),
        i \in OptionalOf(CadenceIntervalChoices) :
          handle_configure_monitoring(e, b, i) /\ UNCHANGED loopVars

SpecCadence == InitCadence /\ [][NextCadence]_vars

\* The server alone, configured with any integers: the inputSchema of
\* configure_monitoring asks for integers and sets no range.
ConfigureIntegers == {-5, 0, DefaultNotifyBefore}

InitConfigure ==
  /\ now = 0
  /\ \E a \in OptionalOf({KnownAddress}), e \in BOOLEAN :
       fileCfg = [address |-> a, enabled |-> e,
                  notification_before_minutes |-> DefaultNotifyBefore,
                  check_interval_minutes |-> DefaultInterval,
                  tracked_outage |-> None]
  /\ srvCfg = fileCfg
  /\ cache = None
  /\ running = FALSE
  /\ notified = {}
  /\ lastKnown = ConfigTriple(DefaultConfig)
  /\ lastCheck = 0
  /\ cycle = "none"
  /\ events = <<>>
  /\ resp = NoResponse
  /\ warnCount = NoCounts
  /\ driftCount = NoDriftCounts
  /\ pc = "top"
  /\ daemonCfg = DefaultConfig
  /\ undelivered = {}

NextConfigure ==
  \/ ServerStart /\ UNCHANGED loopVars
  \/ \E city \in OptionalOf(AddressTexts), street \in OptionalOf(AddressTexts),
        house_number \in OptionalOf(AddressTexts) :
          handle_set_address(city, street, house_number) /\ UNCHANGED loopVars
  \/ \E e \in OptionalOf(BOOLEAN), b \in OptionalOf(ConfigureIntegers),
        i \in OptionalOf(ConfigureIntegers) :
          handle_configure_monitoring(e, b, i) /\ UNCHANGED loopVars

SpecConfigure == InitConfigure /\ [][NextConfigure]_vars

\* ---- monitor_outages_daemon.py: the while loop of main, step by step ----
\* The history of this view is undelivered; warnCount and driftCount are
\* not kept by its steps.
\* where a pass may fail: "read_cache", schedule_cache.json cannot be read
\* (load_schedule_cache answers None); "save_*", writing config.json raises;
\* "send_*", print of the notification raises; "log_*", the notification log
\* cannot be written (write_notification_log swallows the error)
Faults ==
  {"none", "read_cache", "save_warning", "send_warning", "log_warning",
   "send_change", "log_change", "save_change"}

RaisingFaults == {"save_warning", "send_warning", "send_change", "save_change"}

\* JSON values of config.json: null, or an object
JsonNull == [type |-> "null"]

JsonObject(fields) == [type |-> "object", fields |-> fields]

\* Config._save_config: model_dump of the records, written as one JSON object
DumpConfig(cfg) ==
  [address |-> cfg.address,
   monitoring |->
     [check_interval_minutes |-> cfg.check_interval_minutes,
      notification_before_minutes |-> cfg.notification_before_minutes,
      enabled |-> cfg.enabled,
      tracked_outage |->
        IF cfg.tracked_outage = None THEN JsonNull
        ELSE JsonObject(cfg.tracked_outage[1])]]

\* variant: the tracked outage of the file is not read back
ParseWithoutTracking(data) ==
  [address |-> data.address,
   enabled |-> data.monitoring.enabled,
   notification_before_minutes |-> data.monitoring.notification_before_minutes,
   check_interval_minutes |-> data.monitoring.check_interval_minutes,
   tracked_outage |-> None]

\* Config._load_config: Address(**...) and MonitoringConfig(**...) built from
\* the JSON object
ParseConfig(data) ==
  [address |-> data.address,
   enabled |-> data.monitoring.enabled,
   notification_before_minutes |-> data.monitoring.notification_before_minutes,
   check_interval_minutes |-> data.monitoring.check_interval_minutes,
   tracked_outage |->
     IF data.monitoring.tracked_outage.type = "null" THEN None
     ELSE LET t == data.monitoring.tracked_outage.fields
          IN Some(TrackedOutage(t.date, t.start_hour, t.end_hour,
                                t.notified_about_start, t.notified_about_change))]

\* variant: the reload leaves the records in memory as they are
StaleConfig(file, memory) == memory

\* config._load_config() on the file that _save_config wrote from the records
\* file: what is read replaces the records in memory
LoadedConfig(file, memory) == ParseConfig(DumpConfig(file))

\* variant: an exception ends the loop
ExceptionEndsLoop == "exited"

\* except Exception: ... time.sleep(60), then the while test again
AfterException == "backoff"

Undelivered(channel, ev) ==
  [channel |-> channel, kind |-> ev.kind, date |-> ev.date,
   start_hour |-> ev.start_hour]

\* variant: the top of the loop does not look at the running flag
LoopTopBlind ==
  /\ pc = "top"
  /\ pc' = "reload"
  /\ UNCHANGED <<now, fileCfg, srvCfg, cache, running, notified, lastKnown,
                 lastCheck, cycle, events, resp, warnCount, driftCount, daemonCfg,
                 undelivered>>

\* while running: the test at the top of the loop; the memory of the process
\* is gone once the loop is left
LoopTop ==
  /\ pc = "top"
  /\ IF running
       THEN /\ pc' = "reload"
            /\ UNCHANGED <<notified, lastKnown, lastCheck, daemonCfg>>
       ELSE /\ pc' = "exited"
            /\ notified' = {}
            /\ lastKnown' = ConfigTriple(DefaultConfig)
            /\ lastCheck' = 0
            /\ daemonCfg' = DefaultConfig
  /\ UNCHANGED <<now, fileCfg, srvCfg, cache, running, cycle, events, resp,
                 warnCount, driftCount, undelivered>>

\* config._load_config() and the change detection; ok: config.json is readable
CycleReload(ok) ==
  /\ pc = "reload"
  /\ IF ~ok
       THEN /\ pc' = AfterException
            /\ cycle' = "failed"
            /\ UNCHANGED <<daemonCfg, notified, lastKnown, lastCheck>>
       ELSE LET monitoring == LoadedConfig(fileCfg, daemonCfg)
                changed == ConfigChanged(monitoring, lastKnown)
            IN /\ daemonCfg' = monitoring
               /\ notified' = IF changed THEN {} ELSE notified
               /\ lastKnown' = ConfigTriple(monitoring)
               /\ lastCheck' = LastCheckAfterReload(monitoring, lastKnown,
                                                    lastCheck, now)
               /\ pc' = "checks"
               /\ cycle' = "none"
  /\ events' = <<>>
  /\ UNCHANGED <<now, fileCfg, srvCfg, cache, running, resp, warnCount,
                 driftCount, undelivered>>

\* the due test and the two checks on the records in memory; every save
\* writes the whole in-memory Config to config.json
CycleChecks(fault) ==
  LET monitoring == daemonCfg
      since == now - lastCheck
      due == CheckIsDue(monitoring, lastCheck, now)
      cached == IF fault = "read_cache" THEN None ELSE cache
      a == CheckUpcomingOutages(monitoring, cached, notified, now)
      afterWarning == MonitoringAfterWarning(monitoring, a)
      warningRaised == a.sent /\ fault \in {"save_warning", "send_warning"}
      b == IF warningRaised THEN NoChangeSent(afterWarning)
           ELSE CheckScheduleChanges(afterWarning, cached, now)
      changeRaised == b.sent /\ fault \in {"send_change", "save_change"}
      raised == warningRaised \/ changeRaised
      afterChange == [monitoring EXCEPT !.tracked_outage = b.tracked_outage]
      sent == (IF fault = "save_warning" THEN <<>> ELSE a.events) \o b.events
  IN /\ pc = "checks"
     /\ IF monitoring.enabled /\ due
          THEN /\ \/ fault \in {"none", "read_cache"}
                  \/ fault \in {"save_warning", "send_warning", "log_warning"} /\ a.sent
                  \/ fault \in {"send_change", "log_change", "save_change"} /\ b.sent
               /\ fault \in {"send_warning", "log_warning", "send_change", "log_change"}
                    => Cardinality(undelivered) < MaxFailures
               /\ notified' = a.notified
               /\ daemonCfg' = IF fault = "send_change" THEN afterWarning
                                ELSE afterChange
               /\ fileCfg' = IF b.sent /\ ~changeRaised THEN afterChange
                              ELSE IF a.sent /\ fault # "save_warning" THEN afterWarning
                              ELSE fileCfg
               /\ events' = sent
               /\ undelivered' =
                    undelivered \cup
                      (IF fault = "send_warning"
                         THEN {Undelivered("terminal", a.events[1])}
                       ELSE IF fault = "log_warning"
                         THEN {Undelivered("log", a.events[1])}
                       ELSE IF fault = "send_change"
                         THEN {Undelivered("terminal", b.events[1])}
                       ELSE IF fault = "log_change"
                         THEN {Undelivered("log", b.events[1])}
                       ELSE {})
               /\ lastCheck' = IF raised THEN lastCheck ELSE now
               /\ pc' = IF raised THEN AfterException ELSE "sleep"
               /\ cycle' = IF raised THEN "failed" ELSE "checked"
          ELSE /\ fault = "none"
               /\ lastCheck' = IF ~monitoring.enabled /\ since >= DisabledReminder
                                 THEN now ELSE lastCheck
               /\ events' = <<>>
               /\ pc' = "sleep"
               /\ cycle' = "idle"
               /\ UNCHANGED <<notified, daemonCfg, fileCfg, undelivered>>
     /\ UNCHANGED <<now, srvCfg, cache, running, lastKnown, resp, warnCount,
                    driftCount>>

\* variant: the daemon throws the snapshot away before it sleeps
SleepDroppingSnapshot ==
  /\ pc \in {"sleep", "backoff"}
  /\ pc' = "top"
  /\ now' \in {now, NextInstant(now)}
  /\ cache' = None
  /\ UNCHANGED <<fileCfg, srvCfg, running, notified, lastKnown, lastCheck,
                 cycle, events, resp, warnCount, driftCount, daemonCfg,
                 undelivered>>

\* time.sleep(CONFIG_CHECK_INTERVAL), or time.sleep(60) after an exception
CycleSleep ==
  /\ pc \in {"sleep", "backoff"}
  /\ pc' = "top"
  /\ now' \in {now, NextInstant(now)}
  /\ UNCHANGED <<fileCfg, srvCfg, cache, running, notified, lastKnown, lastCheck,
                 cycle, events, resp, warnCount, driftCount, daemonCfg,
                 undelivered>>

\* SIGTERM or SIGINT, at any point of the loop
signal_handler ==
  /\ pc # "exited"
  /\ running
  /\ running' = FALSE
  /\ UNCHANGED <<now, fileCfg, srvCfg, cache, notified, lastKnown, lastCheck,
                 cycle, events, resp, warnCount, driftCount, pc, daemonCfg,
                 undelivered>>

\* The daemon has just entered its loop with monitoring enabled, an address
\* set and a one-slot snapshot of day 0 stored.
InitLoop ==
  /\ now = 0
  /\ \E tr \in TrackedChoices :
       fileCfg = [address |-> Some(KnownAddress), enabled |-> TRUE,
                  notification_before_minutes |-> DefaultNotifyBefore,
                  check_interval_minutes |-> DefaultInterval,
                  tracked_outage |-> tr]
  /\ srvCfg = fileCfg
  /\ daemonCfg = fileCfg
  /\ cache \in { Some(ScheduleCache(q, 0)) :
                   q \in { x \in SnapshotLists : Len(x) = 1 /\ x[1].date = 0 } }
  /\ running = TRUE
  /\ notified = {}
  /\ lastKnown = ConfigTriple(fileCfg)
  /\ lastCheck = now - StartupBacklog
  /\ cycle = "none"
  /\ events = <<>>
  /\ resp = NoResponse
  /\ warnCount = NoCounts
  /\ driftCount = NoDriftCounts
  /\ pc = "top"
  /\ undelivered = {}

NextLoop ==
  \/ LoopTop
  \/ \E ok \in BOOLEAN : CycleReload(ok)
  \/ \E fault \in Faults : CycleChecks(fault)
  \/ CycleSleep
  \/ signal_handler

SpecLoop == InitLoop /\ [][NextLoop]_vars

\* the loop without failures and signals, beside the server changing the
\* notification lead time
NextLoopServer ==
  \/ LoopTop
  \/ CycleReload(TRUE)
  \/ CycleChecks("none")
  \/ CycleSleep
  \/ \E b \in NotifyChoices :
        handle_configure_monitoring(None, Some(b), None) /\ UNCHANGED loopVars

SpecLoopServer == InitLoop /\ [][NextLoopServer]_vars

\* the daemon process is scheduled: each of its steps is taken in the end,
\* and the clock moves on over the sleeps as long as the sampled period lasts
SpecLoopFair ==
  /\ SpecLoop
  /\ WF_vars(LoopTop)
  /\ WF_vars(\E ok \in BOOLEAN : CycleReload(ok))
  /\ WF_vars(\E fault \in Faults : CycleChecks(fault))
  /\ WF_vars(CycleSleep)
  /\ SF_vars(CycleSleep /\ now' # now)

\* ---- vocabulary of the properties ----
Snapshot == IF cache = None THEN <<>> ELSE cache[1].actual_schedules

StartWarnings(evs) == { i \in 1..Len(evs) : evs[i].kind = "start_warning" }

DriftEvents(evs) == { i \in 1..Len(evs) : evs[i].kind \in DriftKinds }

\* minutes from instant t to hour h of date d, on the absolute time line
MinutesUntil(d, h, t) == (d * HoursPerDay + h) * MinutesPerHour - t

\* the hours of date d covered by some slot
OutageHours(actual, d) ==
  { h \in 0..HoursPerDay :
      \E i \in 1..Len(actual) :
        actual[i].date = d /\ actual[i].start_hour <= h /\ h < actual[i].end_hour }

\* the slot of date d starting at start_hour lies in the block of contiguous
\* outage hours that contains instant t
InCurrentBlock(actual, d, start_hour, t) ==
  /\ d = Today(t)
  /\ Hour(t) \in OutageHours(actual, d)
  /\ \A h \in Min(Hour(t), start_hour)..Max(Hour(t), start_hour) :
       h \in OutageHours(actual, d)

\* today's slots whose start lies within the notification lead time
WindowToday(actual, cfg, t) ==
  { i \in 1..Len(actual) :
      /\ actual[i].date = Today(t)
      /\ 0 <= MinutesUntil(actual[i].date, actual[i].start_hour, t)
      /\ MinutesUntil(actual[i].date, actual[i].start_hour, t)
           <= cfg.notification_before_minutes }

SnapshotEntries(actual, tracked) ==
  { i \in 1..Len(actual) :
      actual[i].date = tracked.date /\ actual[i].start_hour = tracked.start_hour }

\* the drift check is due for the tracked outage of cfg at instant t
DriftCheckDue(cfg, t) ==
  /\ cfg.enabled
  /\ cfg.tracked_outage # None
  /\ cfg.tracked_outage[1].date = Today(t)
  /\ ~cfg.tracked_outage[1].notified_about_change
  /\ 0 <= MinutesUntil(cfg.tracked_outage[1].date, cfg.tracked_outage[1].end_hour, t)
  /\ MinutesUntil(cfg.tracked_outage[1].date, cfg.tracked_outage[1].end_hour, t)
       <= RestoreWindow

\* ---- C1 ----
\* C1: between two emptyings of notified_outages (process start, detected
\* configuration change) at most one start warning is sent per outage
\* identifier (date, start hour).
C1_OneWarningPerOutage == \A id \in OutageIds : warnCount[id] <= 1

\* a check pass found an already warned outage in its window and sent nothing
C1_RepeatSuppressed ==
  /\ cycle = "checked"
  /\ events = <<>>
  /\ \E i \in WindowToday(Snapshot, fileCfg, lastCheck) :
       /\ OutageId(Snapshot[i]) \in notified
       /\ warnCount[OutageId(Snapshot[i])] = 1

\* ---- C2 ----
\* C2: a check pass of the daemon sends no start warning for a slot of the
\* block of contiguous outage hours that is in progress at the time of the
\* pass (a single long slot, hourly slots in a row, the exact start instant).
C2_NoWarningForBlockInProgress ==
  cycle = "checked" =>
    \A i \in StartWarnings(events) :
      ~InCurrentBlock(Snapshot, events[i].date, events[i].start_hour, lastCheck)

\* C2, the check_upcoming_outages tool: no alert for a slot of the block in
\* progress.
C2_NoAlertForBlockInProgress ==
  resp.kind = "upcoming_outage_alert" =>
    ~InCurrentBlock(Snapshot, resp.outage[1].date, resp.outage[1].start_hour, now)

\* ---- C3 ----
\* C3: get_next_outage never answers with the block in progress or a slot
\* inside it.
C3_NextOutageNotInProgress ==
  resp.kind = "next_outage" =>
    ~InCurrentBlock(Snapshot, resp.outage[1].date, resp.outage[1].start_hour, now)

\* ---- C4 ----
\* C4: with an address set, check_schedule answers from the cache if and only
\* if force_refresh is false, a stored snapshot exists (whatever its slot
\* list, the empty list included) and it is less than 3600 seconds old.
C4_CacheServedIffFresh ==
  [][\A force \in BOOLEAN, fetched \in OptionalOf(SnapshotLists) :
       (srvCfg.address # None /\ handle_check_schedule(force, fetched)) =>
         (resp'.from_cache <=>
            /\ ~force
            /\ cache # None
            /\ (now - cache[1].last_updated) * 60 < FreshSeconds)]_vars

\* ---- C5 ----
\* C5: when the Fetcher fails during a refresh attempt, the answer is an
\* error, it carries no snapshot (the stale one neither), and the stored
\* snapshot is unchanged.
C5_FetchFailureSurfaced ==
  [][\A force \in BOOLEAN :
       (/\ srvCfg.address # None
        /\ ~ServeFromCache(force, cache, now)
        /\ handle_check_schedule(force, None)) =>
         (/\ resp'.kind = "error_fetching"
          /\ resp'.snapshot = None
          /\ ~resp'.from_cache
          /\ cache' = cache)]_vars

\* an error was answered while a stale snapshot was in the store
C5_ErrorDespiteStaleCache ==
  /\ resp.kind = "error_fetching"
  /\ cache # None
  /\ ~CacheIsFresh(cache[1], now)

\* ---- C6 ----
\* C6, first part: when the drift check is due and the snapshot holds the
\* tracked outage with a greater end hour, the pass sends an extension event,
\* stores the new end hour and sets notified_about_change.
C6_ExtensionSent ==
  [][(/\ cycle' = "checked"
      /\ StartWarnings(events') = {}
      /\ DriftCheckDue(fileCfg, now)
      /\ \E i \in SnapshotEntries(Snapshot, fileCfg.tracked_outage[1]) :
           Snapshot[i].end_hour > fileCfg.tracked_outage[1].end_hour) =>
       \E i \in SnapshotEntries(Snapshot, fileCfg.tracked_outage[1]) :
         /\ \E k \in DriftEvents(events') : events'[k].kind = "extended"
         /\ fileCfg'.tracked_outage =
              Some([fileCfg.tracked_outage[1] EXCEPT
                      !.end_hour = Snapshot[i].end_hour,
                      !.notified_about_change = TRUE])]_vars

\* C6, whole: the extension is sent and stored as above, and at most one
\* extension event is sent for a tracked outage.
C6_ExtensionOnce ==
  /\ C6_ExtensionSent
  /\ [](driftCount["extended"] <= 1)

\* ---- C7 ----
\* C7, first part: when the drift check is due and the snapshot holds no slot
\* with the tracked outage's date and start hour, the pass sends a
\* cancellation event and sets notified_about_change.
C7_CancellationSent ==
  [][(/\ cycle' = "checked"
      /\ StartWarnings(events') = {}
      /\ DriftCheckDue(fileCfg, now)
      /\ SnapshotEntries(Snapshot, fileCfg.tracked_outage[1]) = {}) =>
       (/\ \E k \in DriftEvents(events') : events'[k].kind = "cancelled"
        /\ fileCfg'.tracked_outage =
             Some([fileCfg.tracked_outage[1] EXCEPT
                     !.notified_about_change = TRUE]))]_vars

\* C7, whole: the cancellation is sent and stored as above, and at most one
\* cancellation event is sent for a tracked outage.
C7_CancellationOnce ==
  /\ C7_CancellationSent
  /\ [](driftCount["cancelled"] <= 1)

\* ---- C8 ----
\* C8: a check pass sends at most one event; when it sends a start warning,
\* the drift check of the same pass sends nothing.
C8_OneEventPerCycle ==
  cycle = "checked" =>
    /\ Len(events) <= 1
    /\ StartWarnings(events) # {} => DriftEvents(events) = {}

\* a start warning went out in a pass during which a slot of the snapshot was
\* within the restoration window
C8_WarningWhileRestorationNear ==
  /\ cycle = "checked"
  /\ StartWarnings(events) # {}
  /\ \E i \in 1..Len(Snapshot) :
       /\ Snapshot[i].date = Today(lastCheck)
       /\ 0 <= MinutesUntil(Snapshot[i].date, Snapshot[i].end_hour, lastCheck)
       /\ MinutesUntil(Snapshot[i].date, Snapshot[i].end_hour, lastCheck)
            <= RestoreWindow

\* ---- C9 ----
\* C9: in a check pass, among today's slots that start within
\* [0, notification_before_minutes] minutes the one starting soonest is
\* selected; if its identifier is not in notified_outages the pass sends a
\* start warning for it, adds the identifier and stores the tracked outage
\* {date, start, end, notified_about_start = true, notified_about_change =
\* false}; if no slot is in the window the pass sends no start warning, adds
\* no identifier and, apart from a drift event's update, leaves config.json
\* as it was.
C9_ClosestOutageWarned ==
  [][cycle' = "checked" =>
       LET W == WindowToday(Snapshot, fileCfg, now)
       IN IF W = {}
            THEN /\ StartWarnings(events') = {}
                 /\ notified' \subseteq notified
                 /\ DriftEvents(events') = {} => fileCfg' = fileCfg
            ELSE LET c == Snapshot[CHOOSE i \in W : \A j \in W :
                             MinutesUntil(Snapshot[i].date, Snapshot[i].start_hour, now)
                               <= MinutesUntil(Snapshot[j].date, Snapshot[j].start_hour, now)]
                 IN OutageId(c) \notin notified =>
                      /\ \E k \in StartWarnings(events') :
                           /\ events'[k].date = c.date
                           /\ events'[k].start_hour = c.start_hour
                           /\ events'[k].end_hour = c.end_hour
                      /\ OutageId(c) \in notified'
                      /\ fileCfg'.tracked_outage =
                           Some(TrackedOutage(c.date, c.start_hour, c.end_hour,
                                              TRUE, FALSE))]_vars

\* a start warning went out in a pass whose window held two slots
C9_WarningWithTwoInWindow ==
  /\ cycle = "checked"
  /\ StartWarnings(events) # {}
  /\ Cardinality(WindowToday(Snapshot, fileCfg, lastCheck)) >= 2

\* ---- C10 ----
\* C10: a check pass sends a drift event only if monitoring is enabled, a
\* tracked outage exists, its date is today, notified_about_change is false,
\* its end hour is 0 to 10 minutes away and the snapshot holds no slot with
\* its date and start hour or holds it with another end hour; when the slot is
\* found with the same end hour the drift check sends nothing and leaves the
\* tracked outage as it was.
C10_DriftOnlyWhenDue ==
  [][cycle' = "checked" =>
       /\ DriftEvents(events') # {} =>
            /\ DriftCheckDue(fileCfg, now)
            /\ \A i \in SnapshotEntries(Snapshot, fileCfg.tracked_outage[1]) :
                 Snapshot[i].end_hour # fileCfg.tracked_outage[1].end_hour
       /\ (/\ fileCfg.tracked_outage # None
           /\ StartWarnings(events') = {}
           /\ \E i \in SnapshotEntries(Snapshot, fileCfg.tracked_outage[1]) :
                Snapshot[i].end_hour = fileCfg.tracked_outage[1].end_hour) =>
            /\ DriftEvents(events') = {}
            /\ fileCfg'.tracked_outage = fileCfg.tracked_outage]_vars

\* a drift event went out and the tracked outage is marked
C10_DriftEventSent ==
  /\ cycle = "checked"
  /\ DriftEvents(events) # {}
  /\ fileCfg.tracked_outage # None
  /\ fileCfg.tracked_outage[1].notified_about_change

\* ---- blocks: maximal runs of contiguous slots of one date ----
\* b follows a without a gap
Contiguous(a, b) == a.date = b.date /\ b.start_hour = a.end_hour

\* where the run of contiguous slots of date d that has reached hour h ends
RECURSIVE BlockEnd(_, _, _)
BlockEnd(actual, d, h) ==
  LET nxt == { i \in 1..Len(actual) :
                 /\ actual[i].date = d
                 /\ actual[i].start_hour = h
                 /\ actual[i].end_hour > h }
  IN IF nxt = {} THEN h
     ELSE BlockEnd(actual, d,
            actual[CHOOSE i \in nxt :
                     \A j \in nxt : actual[i].end_hour >= actual[j].end_hour].end_hour)

StartsBlock(actual, i) ==
  ~ \E j \in 1..Len(actual) : Contiguous(actual[j], actual[i])

Block(d, s, e) == [date |-> d, start_hour |-> s, end_hour |-> e]

Blocks(actual) ==
  { Block(actual[i].date, actual[i].start_hour,
          BlockEnd(actual, actual[i].date, actual[i].end_hour)) :
      i \in { k \in 1..Len(actual) : StartsBlock(actual, k) } }

FutureToday(actual, t) ==
  { b \in Blocks(actual) : b.date = Today(t) /\ b.start_hour > Hour(t) }

FutureOtherDay(actual, t) ==
  { b \in Blocks(actual) : b.date > Today(t) }

\* the earliest block that starts later today, else the earliest of a later date
ExpectedNext(actual, t) ==
  IF FutureToday(actual, t) # {}
    THEN Some(CHOOSE b \in FutureToday(actual, t) :
                \A c \in FutureToday(actual, t) : b.start_hour <= c.start_hour)
  ELSE IF FutureOtherDay(actual, t) # {}
    THEN Some(CHOOSE b \in FutureOtherDay(actual, t) :
                \A c \in FutureOtherDay(actual, t) :
                  \/ b.date < c.date
                  \/ b.date = c.date /\ b.start_hour <= c.start_hour)
  ELSE None

\* the slot is over at instant t
Ended(s, t) ==
  \/ s.date < Today(t)
  \/ s.date = Today(t) /\ s.end_hour <= Hour(t)

AnsweredNextOutage == resp.kind \in {"next_outage", "no_next_outage"}

\* ---- C11 ----
\* C11: when a block starts later today, or else on a later date, the answer
\* of get_next_outage is that block: the one of today with the smallest start
\* hour after the current hour, else the earliest by (date, start hour).
C11_NextIsEarliestFutureBlock ==
  (AnsweredNextOutage /\ ExpectedNext(Snapshot, now) # None) =>
    /\ resp.kind = "next_outage"
    /\ resp.outage[1].date = ExpectedNext(Snapshot, now)[1].date
    /\ resp.outage[1].start_hour = ExpectedNext(Snapshot, now)[1].start_hour
    /\ resp.outage[1].end_hour = ExpectedNext(Snapshot, now)[1].end_hour

C13_RunInProgressIsOneBlock ==
  resp.kind = "next_outage" =>
    ~ \E b \in Blocks(Snapshot) :
        /\ b.date = Today(now)
        /\ b.start_hour <= Hour(now)
        /\ Hour(now) < b.end_hour
        /\ \E i \in 1..Len(Snapshot) :
             Snapshot[i].date = b.date /\ Snapshot[i].start_hour = b.start_hour
               /\ Snapshot[i].end_hour < b.end_hour
        /\ resp.outage[1].date = b.date
        /\ b.start_hour <= resp.outage[1].start_hour
        /\ resp.outage[1].start_hour < b.end_hour

\* ---- C14 ----
\* C14: a slot dated before today is never answered as the next outage.
C14_NoPastDateAsNext ==
  resp.kind = "next_outage" => resp.outage[1].date >= Today(now)

\* ---- C15 ----
\* C15: a check_schedule request that is forced, finds no stored snapshot or
\* finds one of 3600 seconds or more is not answered from the cache and calls
\* the Fetcher exactly once; when the call succeeds the fetched snapshot is
\* stored, is the one answered, and is not older than the one stored before.
C15_RefreshFetchesOnce ==
  [][\A force \in BOOLEAN, fetched \in OptionalOf(SnapshotLists) :
       (/\ srvCfg.address # None
        /\ \/ force
           \/ cache = None
           \/ (now - cache[1].last_updated) * MinutesPerHour >= FreshSeconds
        /\ handle_check_schedule(force, fetched)) =>
         (/\ ~resp'.from_cache
          /\ resp'.fetched = 1
          /\ fetched # None =>
               /\ resp'.kind = "schedule"
               /\ cache' # None
               /\ cache'[1].actual_schedules = fetched[1]
               /\ resp'.snapshot = cache'
               /\ cache # None =>
                    cache'[1].last_updated >= cache[1].last_updated)]_vars

\* a refresh later than the first instant was answered with the snapshot it
\* stored
C15_RefreshedAndStored ==
  /\ resp.kind = "schedule"
  /\ ~resp.from_cache
  /\ resp.fetched = 1
  /\ resp.snapshot = cache
  /\ cache[1].last_updated = now
  /\ now > 0

\* ---- C16 ----
\* C16: a check_schedule request without force_refresh made less than 3600
\* seconds after the last successful fetch does not call the Fetcher,
\* whatever the stored snapshot contains.
C16_NoRefetchWithinTheHour ==
  [][\A fetched \in OptionalOf(SnapshotLists) :
       (/\ srvCfg.address # None
        /\ cache # None
        /\ (now - cache[1].last_updated) * MinutesPerHour < FreshSeconds
        /\ handle_check_schedule(FALSE, fetched)) =>
         resp'.fetched = 0]_vars

\* ---- C17 ----
\* C17: get_next_outage and check_upcoming_outages do not compute an answer
\* from a stored snapshot that is more than 3600 seconds old.
C17_ToolsNeverUseStaleSnapshot ==
  resp.kind \in {"next_outage", "no_next_outage",
                 "upcoming_outage_alert", "no_upcoming_outages"} =>
    /\ cache # None
    /\ (now - cache[1].last_updated) * MinutesPerHour <= FreshSeconds

\* the settings reloaded by a loop pass differ from the ones it saw last
SettingsDiffer ==
  \/ fileCfg.enabled # lastKnown.enabled
  \/ fileCfg.notification_before_minutes # lastKnown.notification_before_minutes
  \/ fileCfg.check_interval_minutes # lastKnown.check_interval_minutes

\* ---- C18 ----
\* C18 as claimed: a loop pass with monitoring disabled sends no event and
\* leaves config.json (tracked outage included) and notified_outages as
\* they were.
C18_DisabledPassIsNoOp ==
  [][(LoopIteration /\ ~fileCfg.enabled) =>
       (/\ events' = <<>>
        /\ fileCfg' = fileCfg
        /\ notified' = notified)]_vars

\* C18, amended: a loop pass with monitoring disabled sends no event and
\* leaves config.json (tracked outage included) as it was; it leaves
\* notified_outages as it was unless the reloaded settings differ from the
\* last known ones, in which case notified_outages is emptied.
C18_DisabledPassKeepsConfig ==
  [][(LoopIteration /\ ~fileCfg.enabled) =>
       (/\ events' = <<>>
        /\ fileCfg' = fileCfg
        /\ notified' = IF SettingsDiffer THEN {} ELSE notified)]_vars

\* a pass with monitoring disabled went by with a tracked outage stored and
\* a slot of the snapshot within the notification lead time
C18_DisabledPassWithOutageNear ==
  /\ cycle = "idle"
  /\ ~fileCfg.enabled
  /\ fileCfg.tracked_outage # None
  /\ events = <<>>
  /\ WindowToday(Snapshot, fileCfg, now) # {}

\* C18, the check_upcoming_outages tool: with monitoring disabled the answer
\* is 'monitoring disabled' and names no outage.
C18_ToolReportsDisabled ==
  [][(handle_check_upcoming_outages /\ ~srvCfg.enabled) =>
       (resp'.kind = "monitoring_disabled" /\ resp'.outage = None)]_vars

\* every identifier of the set was warned about by the events of the pass
OnlyWarnedIn(ids, evs) ==
  \A id \in ids : \E i \in StartWarnings(evs) :
    <<evs[i].date, evs[i].start_hour>> = id

\* ---- C19 ----
\* C19: a loop pass whose reloaded (enabled, notification_before_minutes,
\* check_interval_minutes) differ from the last known ones empties
\* notified_outages (what it holds afterwards was warned about in this very
\* pass) and, if monitoring is enabled, runs the outage checks in this pass
\* whatever time has gone by since the last check.
C19_ChangeForcesCheck ==
  [][(LoopIteration /\ SettingsDiffer) =>
       (/\ OnlyWarnedIn(notified', events')
        /\ fileCfg.enabled => cycle' = "checked")]_vars

\* C19, the first part alone: the pass that detects the change empties
\* notified_outages.
C19_ChangeEmptiesNotified ==
  [][(LoopIteration /\ SettingsDiffer) => OnlyWarnedIn(notified', events')]_vars

\* the effective interval in minutes, as a function of the lead time N and
\* check_interval_minutes
ClaimedInterval(N, interval) ==
  IF N < 60
    THEN (IF N \div 15 >= 1 THEN N \div 15 ELSE 1)
    ELSE LET tenth == IF N \div 10 >= 5 THEN N \div 10 ELSE 5
         IN IF interval <= tenth THEN interval ELSE tenth

\* ---- C20 ----
\* C20: while monitoring is enabled a loop pass runs the outage checks if and
\* only if the minutes gone by since the last check are at least the
\* effective interval (max(1, N div 15) when N < 60, else
\* min(check_interval_minutes, max(5, N div 10))) or the pass detected a
\* change of the settings.
C20_ChecksRunIffDue ==
  [][(LoopIteration /\ fileCfg.enabled) =>
       (cycle' = "checked" <=>
          \/ now - lastCheck >= ClaimedInterval(fileCfg.notification_before_minutes,
                                                fileCfg.check_interval_minutes)
          \/ SettingsDiffer)]_vars

\* C20, without a change of the settings: the checks run if and only if the
\* effective interval has gone by since the last check.
C20_DueTestFollowsInterval ==
  [][(LoopIteration /\ fileCfg.enabled /\ ~SettingsDiffer) =>
       (cycle' = "checked" <=>
          now - lastCheck >= ClaimedInterval(fileCfg.notification_before_minutes,
                                             fileCfg.check_interval_minutes))]_vars

\* a step of the loop in which an exception is raised
CycleRaises ==
  \/ CycleReload(FALSE)
  \/ \E fault \in RaisingFaults : CycleChecks(fault) /\ cycle' = "failed"

TrackedOutageOver ==
  /\ fileCfg.tracked_outage # None
  /\ MinutesUntil(fileCfg.tracked_outage[1].date,
                  fileCfg.tracked_outage[1].end_hour, now) < 0

\* ---- C24 ----
\* C24: while the daemon keeps running, a tracked outage whose restoration
\* time has passed does not stay on file for ever: in the end it is cleared
\* or replaced by an outage still ahead.
C24_TrackedOutageEventuallyDies ==
  TrackedOutageOver ~> (~running \/ ~TrackedOutageOver)

\* C24, the daemon's part: no pass of the loop ever clears a tracked outage.
C24_PassNeverClearsTracking ==
  [][(LoopIteration /\ fileCfg.tracked_outage # None) =>
       fileCfg'.tracked_outage # None]_vars

\* ---- C25 ----
\* C25: a configure_monitoring call that changes enabled,
\* notification_before_minutes or check_interval_minutes leaves no tracked
\* outage on file.
C25_ReconfigureClearsTracking ==
  [][\A e \in OptionalOf(BOOLEAN), b \in OptionalOf(NotifyChoices),
        i \in OptionalOf(IntervalChoices) :
       (handle_configure_monitoring(e, b, i)
          /\ ConfigTriple(srvCfg') # ConfigTriple(srvCfg)) =>
         fileCfg'.tracked_outage = None]_vars

\* C25, the consequence: a pass that detects changed settings sends no drift
\* event for the outage tracked before the change.
C25_NoDriftAfterReconfigure ==
  [][(LoopIteration /\ SettingsDiffer /\ fileCfg.tracked_outage # None) =>
       DriftEvents(events') = {}]_vars

\* the pass sends again a notification recorded as undelivered
Resent(u, evs) ==
  \E i \in 1..Len(evs) :
    /\ evs[i].kind = u.kind
    /\ evs[i].date = u.date
    /\ evs[i].start_hour = u.start_hour

\* ---- C26 ----
\* C26: a start warning or drift event whose delivery failed is sent by no
\* later pass, and the failure leaves the daemon in its loop.
C26_FailedDeliveryNotRepeated ==
  [][(\E fault \in Faults : CycleChecks(fault)) =>
       /\ \A u \in undelivered : ~Resent(u, events')
       /\ pc' # "exited"]_vars

\* C26, the part that holds: a start warning whose delivery failed, and a
\* drift event whose log entry could not be written, are sent by no later
\* pass.
C26_WarningOrLoggedEventNotRepeated ==
  [][(\E fault \in Faults : CycleChecks(fault)) =>
       \A u \in undelivered :
         (u.kind = "start_warning" \/ u.channel = "log") => ~Resent(u, events')]_vars

\* ---- C27 ----
\* C27: a pass in which config.json or schedule_cache.json cannot be read is
\* not aborted: it goes on to its checks (after a failed reload) and
\* completes them (after a failed read of the snapshot).
C27_ReadFailureKeepsPass ==
  [][/\ CycleReload(FALSE) => pc' = "checks"
     /\ CycleChecks("read_cache") => pc' = "sleep"]_vars

\* C27, the snapshot alone: a pass that cannot read schedule_cache.json
\* completes its checks without sending anything, and the file is read
\* again by the next pass.
C27_UnreadableSnapshotKeepsPass ==
  [][CycleChecks("read_cache") =>
       (pc' = "sleep" /\ events' = <<>> /\ cache' = cache)]_vars

\* the value of a setting after a call: the argument if present, else as before
Expected(arg, before) == IF arg = None THEN before ELSE arg[1]

\* ---- C28 ----
\* C28: configure_monitoring sets enabled, notification_before_minutes and
\* check_interval_minutes to the arguments present and leaves each of them
\* as it was when its argument is absent; the address is left alone, and the
\* three settings written to config.json are those now in memory.
C28_OnlyGivenFieldsChange ==
  [][\A e \in OptionalOf(BOOLEAN), b \in OptionalOf(CadenceNotifyChoices),
        i \in OptionalOf(CadenceIntervalChoices) :
       handle_configure_monitoring(e, b, i) =>
         /\ srvCfg'.enabled = Expected(e, srvCfg.enabled)
         /\ srvCfg'.notification_before_minutes =
              Expected(b, srvCfg.notification_before_minutes)
         /\ srvCfg'.check_interval_minutes =
              Expected(i, srvCfg.check_interval_minutes)
         /\ srvCfg'.address = srvCfg.address
         /\ ConfigTriple(fileCfg') = ConfigTriple(srvCfg')]_vars

\* a call has set the lead time to 45 on an enabled configuration that the
\* daemon last saw enabled with another lead time
C28_LeadTimeSetWhileEnabled ==
  /\ resp.kind = "monitoring_configured"
  /\ fileCfg.enabled
  /\ fileCfg.notification_before_minutes = 45
  /\ lastKnown.enabled
  /\ lastKnown.notification_before_minutes # 45

C30_StoredSettingsInRange ==
  /\ fileCfg.notification_before_minutes >= 0
  /\ fileCfg.check_interval_minutes >= 1

\* ---- C31 ----
\* the text between the first and the last character of s that is not a
\* blank, both included; the empty text if s holds blanks only
Trimmed(s) ==
  LET inked == { i \in 1..Len(s) : s[i] # Space }
  IN IF inked = {}
       THEN <<>>
       ELSE SubSeq(s, CHOOSE i \in inked : \A j \in inked : i <= j,
                      CHOOSE i \in inked : \A j \in inked : i >= j)

\* a field as set_address reads it: an absent one is the empty text
FieldText(arg) == IF arg = None THEN <<>> ELSE Trimmed(arg[1])

\* C31: set_address stores the address only if city, street and house number
\* are all non-empty once the blanks around them are removed, and then it is
\* the trimmed texts that are stored, in memory and on file; if one of the
\* three is absent or blank the answer is an error and the stored address is
\* what it was.
C31_AddressStoredTrimmedOrRefused ==
  [][\A city \in OptionalOf(AddressTexts), street \in OptionalOf(AddressTexts),
        house_number \in OptionalOf(AddressTexts) :
       handle_set_address(city, street, house_number) =>
         IF /\ FieldText(city) # <<>>
            /\ FieldText(street) # <<>>
            /\ FieldText(house_number) # <<>>
           THEN /\ resp'.kind = "address_saved"
                /\ fileCfg'.address =
                     Some(Address(FieldText(city), FieldText(street),
                                  FieldText(house_number)))
                /\ srvCfg'.address = fileCfg'.address
           ELSE /\ resp'.kind = "address_missing"
                /\ fileCfg'.address = fileCfg.address
                /\ srvCfg'.address = srvCfg.address]_vars

\* an address of two words in the street has been stored over another one
C31_AddressReplaced ==
  /\ resp.kind = "address_saved"
  /\ fileCfg.address = Some(Address(<<"a">>, <<"a", Space, "a">>, <<"a">>))
  /\ srvCfg.address = fileCfg.address

\* ---- C32 ----
\* C32: the check_upcoming_outages tool answers with an upcoming-outage alert
\* only for a slot dated today that starts between 0 and
\* notification_before_minutes minutes from now; a slot of tomorrow or of any
\* other day whose start hour falls in the window of the clock time never
\* raises the alert.
C32_ToolAlertOnlyForToday ==
  [][(handle_check_upcoming_outages /\ resp'.kind = "upcoming_outage_alert") =>
       LET s == resp'.outage[1]
       IN /\ s.date = Today(now)
          /\ 0 <= MinutesUntil(s.date, s.start_hour, now)
          /\ MinutesUntil(s.date, s.start_hour, now)
               <= srvCfg.notification_before_minutes]_vars

\* ---- C33 ----
\* C33, the daemon's side: the checks of a pass, saving the daemon's record,
\* leave enabled, notification_before_minutes and check_interval_minutes on
\* file as they are, also when the server has written them since the reload.
C33_DaemonSaveKeepsSettings ==
  [][(\E fault \in Faults : CycleChecks(fault)) =>
       ConfigTriple(fileCfg') = ConfigTriple(fileCfg)]_vars

\* C33, the server's side: configure_monitoring, saving the server's record,
\* leaves the tracked outage on file as the daemon stored it.
C33_ServerSaveKeepsTracking ==
  [][(\E b \in NotifyChoices : handle_configure_monitoring(None, Some(b), None)) =>
       fileCfg'.tracked_outage = fileCfg.tracked_outage]_vars

\* C33: config.json has two writers, the server (configure_monitoring,
\* set_address) and the daemon (saving the tracked outage), each writing the
\* whole record from its own memory; under every interleaving no write undoes
\* a field the other process changed: the settings written by the server
\* between the daemon's reload and its save are still on file after the save,
\* and a write of the server does not erase the tracked outage the daemon
\* stored.
C33_NoWriterUndoesTheOther ==
  /\ C33_DaemonSaveKeepsSettings
  /\ C33_ServerSaveKeepsTracking

\* ---- C34 ----
\* C34: a start warning that puts another outage in the place of the tracked
\* one never drops a drift check still to come: the tracked outage it replaces
\* has notified_about_change set, or its restoration time (end_hour on its
\* date) has passed.
C34_ReplacedTrackingWasSettled ==
  [][(/\ LoopIteration
      /\ StartWarnings(events') # {}
      /\ fileCfg.tracked_outage # None
      /\ TrackedId(fileCfg') # TrackedId(fileCfg)) =>
       \/ fileCfg.tracked_outage[1].notified_about_change
       \/ MinutesUntil(fileCfg.tracked_outage[1].date,
                       fileCfg.tracked_outage[1].end_hour, now) < 0]_vars

\* ---- C35 ----
\* The loop left to itself on a day with outages in the morning: monitoring
\* is enabled and nothing but the daemon runs; no step fails, no signal
\* arrives, nobody writes config.json or the snapshot. The daemon enters its
\* loop at 00:00, 00:50 or 01:00.
MorningSlots ==
  { OutageSchedule(0, 1, 2), OutageSchedule(0, 2, 3), OutageSchedule(0, 3, 4) }

MorningSnapshots ==
  { q \in UNION { [1..n -> MorningSlots] : n \in 1..3 } :
      \A i \in 1..(Len(q) - 1) : Before(q[i], q[i + 1]) }

LoopEntries == { t \in Instants : t <= MinutesPerHour }

InitUnattended ==
  /\ now \in LoopEntries
  /\ \E b \in CadenceNotifyChoices, i \in CadenceIntervalChoices :
       fileCfg = [address |-> Some(KnownAddress), enabled |-> TRUE,
                  notification_before_minutes |-> b,
                  check_interval_minutes |-> i,
                  tracked_outage |-> None]
  /\ srvCfg = fileCfg
  /\ daemonCfg = fileCfg
  /\ cache \in { Some(ScheduleCache(q, 0)) : q \in MorningSnapshots }
  /\ running = TRUE
  /\ notified = {}
  /\ lastKnown = ConfigTriple(fileCfg)
  /\ lastCheck = now - StartupBacklog
  /\ cycle = "none"
  /\ events = <<>>
  /\ resp = NoResponse
  /\ warnCount = NoCounts
  /\ driftCount = NoDriftCounts
  /\ pc = "top"
  /\ undelivered = {}

NextUnattended ==
  \/ LoopTop
  \/ CycleReload(TRUE)
  \/ CycleChecks("none")
  \/ CycleSleep

\* the daemon is scheduled and the clock moves on over the sleeps
SpecUnattended ==
  /\ InitUnattended
  /\ [][NextUnattended]_vars
  /\ WF_vars(LoopTop)
  /\ WF_vars(CycleReload(TRUE))
  /\ WF_vars(CycleChecks("none"))
  /\ WF_vars(CycleSleep)
  /\ SF_vars(CycleSleep /\ now' # now)

\* slot s of the snapshot starts a block of today that lies ahead
FutureBlockStart(s) ==
  /\ \E i \in 1..Len(Snapshot) : Snapshot[i] = s /\ StartsBlock(Snapshot, i)
  /\ s.date = Today(now)
  /\ MinutesUntil(s.date, s.start_hour, now) > 0

\* the pass just made has sent a start warning for slot s
WarnedNow(s) ==
  \E i \in StartWarnings(events) :
    events[i].date = s.date /\ events[i].start_hour = s.start_hour

\* C35: with monitoring enabled, notification_before_minutes >= 1, the same
\* snapshot and settings throughout and no failing pass, every block of today
\* that starts after the daemon has entered its loop gets a start warning in
\* some pass, also when an earlier block in the same lead-time window has
\* been warned about already.
C35_EveryFutureBlockWarned ==
  \A s \in MorningSlots : FutureBlockStart(s) => <>WarnedNow(s)

\* ---- C36 ----
\* C36: an identifier enters notified_outages only in a pass that hands a
\* start warning for it to the notifier; a pass in which saving the tracked
\* outage fails, after the identifier was added and before the warning was
\* printed, does not leave the identifier behind to suppress the warning in
\* later passes.
C36_NotifiedOnlyIfWarned ==
  [][(\E fault \in Faults : CycleChecks(fault)) =>
       OnlyWarnedIn(notified' \ notified, events')]_vars

\* ---- C37 ----
\* what the Fetcher returns to the server while the daemon runs: it raises,
\* or it yields one slot of day 0
FetchOutcomes ==
  OptionalOf({ q \in SnapshotLists : Len(q) = 1 /\ q[1].date = 0 })

\* The loop step by step next to a server whose check_outage_schedule tool is
\* called with force_refresh: the only writer of schedule_cache.json.
NextSnapshot ==
  \/ LoopTop
  \/ CycleReload(TRUE)
  \/ CycleChecks("none")
  \/ CycleSleep
  \/ \E fetched \in FetchOutcomes :
        handle_check_schedule(TRUE, fetched) /\ UNCHANGED loopVars

SpecSnapshot == InitLoop /\ [][NextSnapshot]_vars

\* a step of the daemon's loop
DaemonStep ==
  \/ LoopTop
  \/ \E ok \in BOOLEAN : CycleReload(ok)
  \/ \E fault \in Faults : CycleChecks(fault)
  \/ CycleSleep

\* C37: no step of a pass, neither the check of upcoming outages nor the
\* check of schedule changes, fetches a schedule or writes
\* schedule_cache.json: the stored snapshot changes only in a step of the
\* server that saves a fetched one, and from one pass to the next the daemon
\* finds the snapshot it found before unless such a step came in between.
C37_DaemonLeavesSnapshotAlone ==
  [][/\ DaemonStep => cache' = cache
     /\ cache' # cache =>
          \E fetched \in FetchOutcomes : handle_check_schedule(TRUE, fetched)]_vars

\* a pass has warned about the slot of a snapshot that the server saved while
\* the daemon was running
C37_WarnedFromRefreshedSnapshot ==
  /\ cycle = "checked"
  /\ cache # None
  /\ cache[1].last_updated > 0
  /\ \E i \in StartWarnings(events) :
       /\ events[i].date = Snapshot[1].date
       /\ events[i].start_hour = Snapshot[1].start_hour

\* ---- C38 ----
\* C38: when a pass sends a shortening event for the tracked outage (the
\* snapshot's end_hour is smaller than the tracked one), the clock is not
\* past the new, earlier restoration time: the user hears of the earlier
\* return of power before it happens.
C38_ShorteningKnownInTime ==
  [][LoopIteration =>
       \A k \in DriftEvents(events') :
         events'[k].kind = "shortened" =>
           MinutesUntil(events'[k].date, events'[k].new_end_hour, now) >= 0]_vars

\* ---- C39 ----
\* The due test of the loop over the settings a user can store: every lead
\* time from one minute to beyond an hour, two of many hours, and check
\* intervals below, at and above the floor of five minutes. No address is set
\* and no snapshot stored, so a check pass sends nothing.
IntervalLeadTimes == (1..75) \cup {600, 1300}

IntervalSettings == {1, 4, 5, 6, 7, 60, 180}

InitInterval ==
  /\ now = 0
  /\ \E b \in IntervalLeadTimes, i \in IntervalSettings :
       fileCfg = [address |-> None, enabled |-> TRUE,
                  notification_before_minutes |-> b,
                  check_interval_minutes |-> i,
                  tracked_outage |-> None]
  /\ srvCfg = fileCfg
  /\ cache = None
  /\ running = TRUE
  /\ notified = {}
  /\ lastKnown = ConfigTriple(fileCfg)
  /\ lastCheck = now - StartupBacklog
  /\ cycle = "none"
  /\ events = <<>>
  /\ resp = NoResponse
  /\ warnCount = NoCounts
  /\ driftCount = NoDriftCounts
  /\ pc = "top"
  /\ daemonCfg = DefaultConfig
  /\ undelivered = {}

NextInterval == LoopIteration /\ UNCHANGED loopVars

SpecInterval == InitInterval /\ [][NextInterval]_vars

====
